---------------------------- MODULE Spec2Model ----------------------------
(***************************************************************************)
(* The polls application: the five read-only views of polls/views.py over  *)
(* the Question/Choice store, and the vote view, the only end-user         *)
(* mutation.  Primary keys are positions in the two tables (autoincrement).*)
(* Time is an abstract integer clock.                                      *)
(***************************************************************************)
EXTENDS Integers, Sequences, FiniteSets, TLC

VARIABLES
    questions,        \* table polls_question: <<[pub_date |-> t], ...>>, pk = index
    choices,          \* table polls_choice: <<[question |-> fk, votes |-> n], ...>>
    now,              \* timezone.now()
    pc,               \* pc[p]: where request handler p is inside vote()
    question,         \* question[p]: the Question vote() fetched (its pk), 0 if none
    selected_choice,  \* selected_choice[p]: the Choice instance vote() loaded
    POST,             \* POST[p]: request.POST as read by handler p
    outcome,          \* what the last vote() call to end returned or raised, and its form
    nreq,             \* number of vote requests accepted so far
    tally,            \* ghost: tally[c] = initial votes of c + completed votes for c
    response          \* the last response of a class-based view

vars == <<questions, choices, now, pc, question, selected_choice, POST, outcome,
          nreq, tally, response>>

voteVars == <<pc, question, selected_choice, POST, outcome, nreq, tally>>

---------------------------------------------------------------------------
(* Bounds *)

\* Questions in a fixture of the listing specification.
MaxQuestions == 6
\* Questions in a fixture of the voting specification.
MaxVoteQuestions == 2
\* The offset, in clock units, of a fixture's pub_date from the creation time.
MaxDays == 1
\* Concurrent request handlers.
NumProcs == 2
\* vote requests accepted in one behaviour.
MaxRequests == 2

(* Program constants *)

\* [:5] of IndexView.get_queryset
IndexLimit == 5
\* [:5] of PopularView.get_queryset
PopularLimit == 5
\* Choice.votes when Choice.objects.create is given no votes
DefaultVotes == 0

Procs == 1..NumProcs
\* The clock when the fixture is built, and the last instant modelled.
StartTime == MaxDays
MaxTime == 2 * MaxDays

---------------------------------------------------------------------------
(* The store *)

QuestionIds == 1..Len(questions)
ChoiceIds == 1..Len(choices)

\* question.choice_set
choice_set(q) == {c \in ChoiceIds : choices[c].question = q}

\* Count('choice')
choice_cnt(q) == Cardinality(choice_set(q))

RECURSIVE SumOver(_)
SumOver(S) ==
    IF S = {} THEN 0
    ELSE LET c == CHOOSE x \in S : TRUE
         IN  choices[c].votes + SumOver(S \ {c})

\* Sum('choice__votes'): both annotations aggregate over the one join on choice
SumVotes(q) == SumOver(choice_set(q))

---------------------------------------------------------------------------
(* Fixtures: tests.py *)

\* Question.objects.create(pub_date=time)
AddQuestion(db, time) ==
    [db EXCEPT !.questions = Append(@, [pub_date |-> time])]

\* Choice.objects.create(question=question, votes=votes)
AddChoice(db, q, v) ==
    [db EXCEPT !.choices = Append(@, [question |-> q, votes |-> v])]

\* create_question(question_text, days, have_choice, votes) at clock t;
\* votes = 0 stands for the default votes=False.
create_question(db, t, days, have_choice, votes) ==
    LET withq == AddQuestion(db, t + days)
        q == Len(withq.questions)
    IN  IF have_choice
        THEN IF votes # 0 THEN AddChoice(withq, q, votes)
                          ELSE AddChoice(withq, q, DefaultVotes)
        ELSE withq

RECURSIVE Repeat(_, _, _, _, _, _)
\* for x in range(n): create_question(days=days, have_choice=hc, votes=x+1 if varied)
Repeat(db, t, n, days, hc, varied) ==
    IF n = 0 THEN db
    ELSE create_question(Repeat(db, t, n - 1, days, hc, varied), t, days, hc,
                         IF varied THEN n ELSE 0)

EmptyDb == [questions |-> <<>>, choices |-> <<>>]

\* question_builder(normal, future, no_choices, various_votes) at clock t
question_builder(t, normal, future, no_choices, various_votes) ==
    LET a == Repeat(EmptyDb, t, normal, -MaxDays, TRUE, FALSE)
        b == Repeat(a, t, future, MaxDays, TRUE, FALSE)
        c == Repeat(b, t, no_choices, -MaxDays, FALSE, FALSE)
    IN  Repeat(c, t, various_votes, -MaxDays, TRUE, TRUE)

\* The stores question_builder makes with at most n questions, each also with
\* a second choice, holding one vote, added to one of its questions.
Fixtures(n) ==
    LET built == {question_builder(StartTime, a, b, c, d) :
                    <<a, b, c, d>> \in {x \in (0..n) \X (0..n) \X (0..n) \X (0..n) :
                                          x[1] + x[2] + x[3] + x[4] <= n}}
    IN  built \cup
        UNION {{AddChoice(db, q, 1) : q \in 1..Len(db.questions)} : db \in built}

---------------------------------------------------------------------------
(* Form data *)

Digits == {"0", "1", "2", "3", "4", "5", "6", "7", "8", "9"}

DigitVal(ch) ==
    CASE ch = "0" -> 0 [] ch = "1" -> 1 [] ch = "2" -> 2 [] ch = "3" -> 3
      [] ch = "4" -> 4 [] ch = "5" -> 5 [] ch = "6" -> 6 [] ch = "7" -> 7
      [] ch = "8" -> 8 [] ch = "9" -> 9

\* The strings the form field is submitted with, as tuples of characters: the
\* empty string, identifiers, a leading zero, an identifier of no row, and
\* values that are no number.
FormValues ==
    {<<>>, <<"0">>, <<"1">>, <<"2">>, <<"0", "1">>, <<"1", "2">>, <<"x">>, <<"1", "x">>}

\* request.POST without the key 'choice'
NoPost == [k \in {} |-> <<>>]

\* request.POST: with or without the key 'choice'
PostData == {NoPost} \cup {[k \in {"choice"} |-> s] : s \in FormValues}

\* int(value) succeeds
IsIntLiteral(s) == Len(s) > 0 /\ \A i \in 1..Len(s) : s[i] \in Digits

RECURSIVE IntValue(_)
\* int(value)
IntValue(s) ==
    IF Len(s) = 0 THEN 0
    ELSE 10 * IntValue(SubSeq(s, 1, Len(s) - 1)) + DigitVal(s[Len(s)])

---------------------------------------------------------------------------
(* vote(request, question_id) *)

NoChoice == [id |-> 0, votes |-> 0]
NoOutcome == [kind |-> "none", question |-> 0, raised |-> "none", POST |-> NoPost]
NoResponse == [view |-> "none", status |-> 0, list |-> <<>>, object |-> 0]

\* raise Http404
Http404 == [kind |-> "Http404", question |-> 0, raised |-> "Http404", POST |-> NoPost]
\* an exception the except clause does not name leaves vote()
Uncaught(q, exc, post) ==
    [kind |-> "exception", question |-> q, raised |-> exc, POST |-> post]
\* render(request, 'polls/detail.html', {'question': question, 'error_message': ...})
RenderDetail(q, exc, post) ==
    [kind |-> "render_detail", question |-> q, raised |-> exc, POST |-> post]
\* HttpResponseRedirect(reverse('polls:results', args=(question.id,)))
Redirect(q, post) ==
    [kind |-> "redirect_results", question |-> q, raised |-> "none", POST |-> post]

\* get_object_or_404(Question, pk=question_id): the rows the lookup can return
get_object_or_404(question_id) == {q \in QuestionIds : q = question_id}

\* Mutant: Choice.objects.get(pk=pk), not restricted to the question's choices
choice_get_any_question(q, pk) == {c \in ChoiceIds : c = pk}

\* question.choice_set.get(pk=pk): the rows the lookup can return
choice_set_get(q, pk) == {c \in choice_set(q) : c = pk}

\* Mutant: selected_choice.votes += 1, the value read when the choice was loaded
stale_votes_plus_1(p) == selected_choice[p].votes + 1

\* selected_choice.votes = F('votes') + 1: the value the UPDATE stores
F_votes_plus_1(p) == choices[selected_choice[p].id].votes + 1

\* Mutant: args=(selected_choice.id,)
results_redirect_to_choice(p) == Redirect(selected_choice[p].id, POST[p])

\* reverse('polls:results', args=(question.id,))
results_redirect(p) == Redirect(question[p], POST[p])

\* vote() returns or raises: the handler is free again
vote_return(p, result) ==
    /\ outcome' = result
    /\ pc' = [pc EXCEPT ![p] = "idle"]
    /\ question' = [question EXCEPT ![p] = 0]
    /\ POST' = [POST EXCEPT ![p] = NoPost]
    /\ selected_choice' = [selected_choice EXCEPT ![p] = NoChoice]

\* line 70: a request arrives at handler p and the Question is fetched
vote_get_question(p) ==
    /\ pc[p] = "idle"
    /\ nreq < MaxRequests
    /\ nreq' = nreq + 1
    /\ \E question_id \in 1..(Len(questions) + 1) :
         IF get_object_or_404(question_id) = {}
         THEN /\ outcome' = Http404
              /\ UNCHANGED <<pc, question>>
         ELSE /\ question' = [question EXCEPT ![p] = question_id]
              /\ pc' = [pc EXCEPT ![p] = "get_choice"]
              /\ UNCHANGED outcome
    /\ UNCHANGED <<questions, choices, now, selected_choice, POST, tally, response>>

\* lines 71-77: the try block and its except clause.  request.POST is read
\* here for the first time, so the submitted form is drawn in this step.
vote_get_choice(p) ==
    /\ pc[p] = "get_choice"
    /\ \E post \in PostData :
         IF "choice" \notin DOMAIN post
         THEN vote_return(p, RenderDetail(question[p], "KeyError", post))
         ELSE IF ~IsIntLiteral(post["choice"])
         THEN vote_return(p, Uncaught(question[p], "ValueError", post))
         ELSE IF choice_set_get(question[p], IntValue(post["choice"])) = {}
         THEN vote_return(p, RenderDetail(question[p], "DoesNotExist", post))
         ELSE \E c \in choice_set_get(question[p], IntValue(post["choice"])) :
              /\ selected_choice' = [selected_choice EXCEPT
                                       ![p] = [id |-> c, votes |-> choices[c].votes]]
              /\ POST' = [POST EXCEPT ![p] = post]
              /\ pc' = [pc EXCEPT ![p] = "save"]
              /\ UNCHANGED <<outcome, question>>
    /\ UNCHANGED <<questions, choices, now, nreq, tally, response>>

\* lines 78-85: the else block
vote_save(p) ==
    /\ pc[p] = "save"
    /\ choices' = [choices EXCEPT ![selected_choice[p].id].votes = F_votes_plus_1(p)]
    /\ tally' = [tally EXCEPT ![selected_choice[p].id] = @ + 1]
    /\ vote_return(p, results_redirect(p))
    /\ UNCHANGED <<questions, now, nreq, response>>

\* The clock advances.
Tick ==
    /\ now < MaxTime
    /\ now' = now + 1
    /\ UNCHANGED <<questions, choices, voteVars, response>>

---------------------------------------------------------------------------
(* The class-based views *)

\* Mutant: .filter(pub_date__lt=timezone.now())
pub_date__lt(q, t) == questions[q].pub_date < t

\* .filter(pub_date__lte=timezone.now())
pub_date__lte(q, t) == questions[q].pub_date <= t

\* .annotate(choice_cnt=Count('choice')).exclude(choice_cnt=0)
exclude_choice_cnt_0(S) == {q \in S : choice_cnt(q) # 0}

RECURSIVE OrderByDesc(_, _, _)
\* .order_by('-key')[:n]: every row order the database may return for the rows
\* S sorted by key descending, rows with equal keys in any order, cut to n rows
OrderByDesc(S, key, n) ==
    IF S = {} \/ n = 0 THEN {<<>>}
    ELSE LET top == {q \in S : \A r \in S : key[q] >= key[r]}
         IN  UNION {{<<q>> \o rest : rest \in OrderByDesc(S \ {q}, key, n - 1)}
                    : q \in top}

\* Mutant: Count('choice') where Sum('choice__votes') belongs
choice_cnt_key == [q \in QuestionIds |-> choice_cnt(q)]

\* order_by('-pub_date'): the sort key
pub_date_key == [q \in QuestionIds |-> questions[q].pub_date]
\* .annotate(votes=Sum('choice__votes')).order_by('-votes'): the sort key
votes_key == [q \in QuestionIds |-> SumVotes(q)]

\* Mutant: .order_by('pub_date')[:5], oldest first
IndexView_oldest_first ==
    OrderByDesc({q \in exclude_choice_cnt_0(QuestionIds) : pub_date__lte(q, now)},
                [q \in QuestionIds |-> 0 - questions[q].pub_date], IndexLimit)

\* IndexView.get_queryset
IndexView_get_queryset ==
    OrderByDesc({q \in exclude_choice_cnt_0(QuestionIds) : pub_date__lte(q, now)},
                pub_date_key, IndexLimit)

\* DetailView.get_queryset
DetailView_get_queryset ==
    {q \in exclude_choice_cnt_0(QuestionIds) : pub_date__lte(q, now)}

\* ResultsView.get_queryset
ResultsView_get_queryset ==
    {q \in exclude_choice_cnt_0(QuestionIds) : pub_date__lte(q, now)}

\* AllQuestionsView.get_queryset
AllQuestionsView_get_queryset ==
    LET rows == {q \in exclude_choice_cnt_0(QuestionIds) : pub_date__lte(q, now)}
    IN  OrderByDesc(rows, pub_date_key, Cardinality(rows))

\* PopularView.get_queryset
PopularView_get_queryset ==
    OrderByDesc({q \in exclude_choice_cnt_0(QuestionIds) : pub_date__lte(q, now)},
                votes_key, PopularLimit)

ListResponse(view, list) ==
    [view |-> view, status |-> 200, list |-> list, object |-> 0]

\* generic.DetailView.get: the object of the queryset with this pk, or Http404
ObjectResponse(view, queryset, pk) ==
    IF pk \in queryset
    THEN [view |-> view, status |-> 200, list |-> <<>>, object |-> pk]
    ELSE [view |-> view, status |-> 404, list |-> <<>>, object |-> pk]

IndexView ==
    /\ response = NoResponse
    /\ \E list \in IndexView_get_queryset : response' = ListResponse("index", list)
    /\ UNCHANGED <<questions, choices, now, voteVars>>

AllQuestionsView ==
    /\ response = NoResponse
    /\ \E list \in AllQuestionsView_get_queryset : response' = ListResponse("all", list)
    /\ UNCHANGED <<questions, choices, now, voteVars>>

PopularView ==
    /\ response = NoResponse
    /\ \E list \in PopularView_get_queryset : response' = ListResponse("popular", list)
    /\ UNCHANGED <<questions, choices, now, voteVars>>

DetailView ==
    /\ response = NoResponse
    /\ \E pk \in 1..(Len(questions) + 1) :
         response' = ObjectResponse("detail", DetailView_get_queryset, pk)
    /\ UNCHANGED <<questions, choices, now, voteVars>>

ResultsView ==
    /\ response = NoResponse
    /\ \E pk \in 1..(Len(questions) + 1) :
         response' = ObjectResponse("results", ResultsView_get_queryset, pk)
    /\ UNCHANGED <<questions, choices, now, voteVars>>

\* The response is returned to the client; nothing of a request outlives it.
SendResponse ==
    /\ response # NoResponse
    /\ response' = NoResponse
    /\ UNCHANGED <<questions, choices, now, voteVars>>

---------------------------------------------------------------------------

InitWith(db) ==
    /\ questions = db.questions
    /\ choices = db.choices
    /\ now = StartTime
    /\ pc = [p \in Procs |-> "idle"]
    /\ question = [p \in Procs |-> 0]
    /\ selected_choice = [p \in Procs |-> NoChoice]
    /\ POST = [p \in Procs |-> NoPost]
    /\ outcome = NoOutcome
    /\ nreq = 0
    /\ tally = [c \in 1..Len(db.choices) |-> db.choices[c].votes]
    /\ response = NoResponse

Init == \E db \in Fixtures(MaxVoteQuestions) : InitWith(db)

Next ==
    \/ \E p \in Procs : vote_get_question(p)
    \/ \E p \in Procs : vote_get_choice(p)
    \/ \E p \in Procs : vote_save(p)
    \/ Tick

\* The voting specification.
Spec == Init /\ [][Next]_vars

\* The listing specification: the read-only views over a larger fixture.
InitList == \E db \in Fixtures(MaxQuestions) : InitWith(db)

NextList ==
    \/ IndexView
    \/ AllQuestionsView
    \/ PopularView
    \/ DetailView
    \/ ResultsView
    \/ SendResponse
    \/ Tick

SpecList == InitList /\ [][NextList]_vars

---------------------------------------------------------------------------
(* Properties of vote() *)

Range(seq) == {seq[i] : i \in 1..Len(seq)}

\* The form names a choice of question q.
ValidSelection(post, q) ==
    /\ "choice" \in DOMAIN post
    /\ IsIntLiteral(post["choice"])
    /\ IntValue(post["choice"]) \in ChoiceIds
    /\ choices[IntValue(post["choice"])].question = q

\* The form has no choice, or a well-formed identifier that names no choice or
\* a choice of another question than q.
MissingOrForeignSelection(post, q) ==
    \/ "choice" \notin DOMAIN post
    \/ /\ IsIntLiteral(post["choice"])
       /\ \/ IntValue(post["choice"]) \notin ChoiceIds
          \/ choices[IntValue(post["choice"])].question # q

\* The form carries a value that is no integer literal.
MalformedSelection(post) ==
    /\ "choice" \in DOMAIN post
    /\ ~IsIntLiteral(post["choice"])

\* Handler p takes the step that looks the choice up / that saves the vote.
LookupStep(p) == pc[p] = "get_choice" /\ pc'[p] # "get_choice"
SaveStep(p) == pc[p] = "save" /\ pc'[p] # "save"

\* The form handler p read in its lookup step.
Submitted(p) == IF pc'[p] = "save" THEN POST'[p] ELSE outcome'.POST

\* C1: a vote for a choice c of the fetched question Q reaches the save, which
\* adds exactly 1 to the stored count of c, changes no other choice and no
\* question, and returns the redirect to the results of Q.
C1_ValidVoteAddsOne ==
    [][\A p \in Procs :
         /\ (LookupStep(p) /\ ValidSelection(Submitted(p), question[p])) =>
               /\ pc'[p] = "save"
               /\ selected_choice'[p].id = IntValue(Submitted(p)["choice"])
               /\ choices' = choices
         /\ SaveStep(p) =>
               LET c == selected_choice[p].id
               IN  /\ c = IntValue(POST[p]["choice"])
                   /\ choices[c].question = question[p]
                   /\ Len(choices') = Len(choices)
                   /\ choices'[c].votes = choices[c].votes + 1
                   /\ choices'[c].question = choices[c].question
                   /\ \A d \in ChoiceIds \ {c} : choices'[d] = choices[d]
                   /\ questions' = questions
                   /\ outcome'.kind = "redirect_results"
                   /\ outcome'.question = question[p]]_vars

\* C1 witness: the one vote so far was redirected for a question, not question
\* 1, that has two choices: the one voted for went from 0 to 1.
C1_Witness ==
    \E c \in ChoiceIds, d \in ChoiceIds :
        /\ outcome.kind = "redirect_results"
        /\ outcome.question # 1
        /\ nreq = 1
        /\ c # d
        /\ c = IntValue(outcome.POST["choice"])
        /\ choices[c].question = outcome.question
        /\ choices[d].question = outcome.question
        /\ choices[c].votes = 1
        /\ tally[d] = choices[d].votes

\* C2: no vote is lost under any interleaving: every stored count equals the
\* count the choice was created with plus the number of completed votes for it,
\* and no step lowers a count.
C2_NoLostVote ==
    /\ [](\A c \in ChoiceIds : choices[c].votes = tally[c])
    /\ [][\A c \in ChoiceIds : choices'[c].votes >= choices[c].votes]_vars

\* C2 witness: a handler is about to save a choice whose stored count has
\* moved since the handler read it: another vote landed in between.
C2_Witness ==
    \E p \in Procs :
        /\ pc[p] = "save"
        /\ selected_choice[p].votes < choices[selected_choice[p].id].votes

\* C3: with the choice missing, naming no choice, or naming a choice of another
\* question, vote() changes no count and re-renders the form of the question:
\* neither the redirect nor Http404.
C3_InvalidSelectionRerenders ==
    [][\A p \in Procs :
         (LookupStep(p) /\ MissingOrForeignSelection(Submitted(p), question[p])) =>
             /\ choices' = choices
             /\ questions' = questions
             /\ pc'[p] = "idle"
             /\ outcome'.kind = "render_detail"
             /\ outcome'.question = question[p]]_vars

\* C3 witness: the form was re-rendered for a question that has choices, after
\* a submission that named a choice of another question.
C3_Witness ==
    /\ outcome.kind = "render_detail"
    /\ choice_set(outcome.question) # {}
    /\ "choice" \in DOMAIN outcome.POST
    /\ IsIntLiteral(outcome.POST["choice"])
    /\ IntValue(outcome.POST["choice"]) \in ChoiceIds
    /\ choices[IntValue(outcome.POST["choice"])].question # outcome.question

\* C4: a malformed choice identifier gets the invalid-selection outcome and
\* changes no count; no exception leaves vote().
C4_MalformedSelectionRerenders ==
    [][\A p \in Procs :
         (LookupStep(p) /\ MalformedSelection(Submitted(p))) =>
             /\ choices' = choices
             /\ pc'[p] = "idle"
             /\ outcome'.kind = "render_detail"
             /\ outcome'.question = question[p]]_vars

\* C5: a question with no choice is never displayed: not in a listing, not by
\* detail or results, not by the form vote() re-renders.
C5_NoChoiceNeverDisplayed ==
    /\ outcome.kind = "render_detail" => choice_set(outcome.question) # {}
    /\ \A q \in Range(response.list) : choice_set(q) # {}
    /\ (response.status = 200 /\ response.object # 0) => choice_set(response.object) # {}

\* C10: vote() raises Http404 and changes no count when the question does not
\* exist or is not yet published: no handler goes on with an unpublished
\* question, and every redirect leads to a results view that finds the question.
C10_VoteRejectsUnpublished ==
    /\ \A p \in Procs : pc[p] # "idle" => questions[question[p]].pub_date <= now
    /\ outcome.kind = "redirect_results" =>
          /\ questions[outcome.question].pub_date <= now
          /\ choice_set(outcome.question) # {}

---------------------------------------------------------------------------
(* Properties of the views *)

\* A view answers a request in this step.
ViewStep == response = NoResponse /\ response' # NoResponse

\* Question q has at least one choice / is published at time t.
HasChoice(q) == \E c \in ChoiceIds : choices[c].question = q
IsPublished(q, t) == questions[q].pub_date <= t

\* The questions the views may show at time t.
Eligible(t) == {q \in QuestionIds : HasChoice(q) /\ IsPublished(q, t)}

Min(a, b) == IF a <= b THEN a ELSE b

Injective(seq) == \A i, j \in 1..Len(seq) : seq[i] = seq[j] => i = j

\* C6: a question whose pub_date is after the time of the request is in no
\* listing and is not found by detail or results; a question with a choice
\* whose pub_date is at or before that time is found by both and listed by all.
C6_PublishedIffPubDateReached ==
    [][ViewStep =>
         \A q \in QuestionIds :
            /\ questions[q].pub_date > now =>
                  /\ q \notin Range(response'.list)
                  /\ response'.object = q => response'.status = 404
            /\ (questions[q].pub_date <= now /\ HasChoice(q)) =>
                  /\ response'.object = q => response'.status = 200
                  /\ response'.view = "all" => q \in Range(response'.list)]_vars

\* C6 witness: the all view lists a question whose pub_date is the current
\* time, which was in the future when the fixture was built.
C6_Witness ==
    /\ response.view = "all"
    /\ now > StartTime
    /\ \E q \in Range(response.list) : questions[q].pub_date = now

\* C7: the index view returns min(5, number of eligible questions) questions,
\* all eligible, none twice, latest pub_date first, and no eligible question
\* left out is later than a returned one.
C7_LatestFive ==
    [][(ViewStep /\ response'.view = "index") =>
         LET list == response'.list
             E == Eligible(now)
         IN  /\ Len(list) = Min(5, Cardinality(E))
             /\ Range(list) \subseteq E
             /\ Injective(list)
             /\ \A i, j \in 1..Len(list) :
                   i < j => questions[list[i]].pub_date >= questions[list[j]].pub_date
             /\ \A q \in E \ Range(list), i \in 1..Len(list) :
                   questions[q].pub_date <= questions[list[i]].pub_date]_vars

\* C7 witness: the index view returned 5 of more than 5 eligible questions,
\* with two pub_dates among them and an earlier question left out.
C7_Witness ==
    /\ response.view = "index"
    /\ Len(response.list) = 5
    /\ \E i, j \in 1..Len(response.list) :
          questions[response.list[i]].pub_date > questions[response.list[j]].pub_date
    /\ \E q \in Eligible(now) \ Range(response.list) :
          questions[q].pub_date < questions[response.list[1]].pub_date

C9_PopularDeterministic ==
    (response.view = "popular" /\ response.list \in PopularView_get_queryset)
        => PopularView_get_queryset = {response.list}

===========================================================================
